---- MODULE Spec2Model ----
(***************************************************************************)
(* Citation-to-text matching and highlighting engine of the PDF pane.      *)
(*                                                                         *)
(* Text is modelled as a sequence of one-character strings.  A page of the *)
(* rendered document is a host element (pageRefs), an optional text layer  *)
(* and the ordered spans ("fragments") of that layer.  JavaScript runs one *)
(* callback at a time, so every handler is one atomic action; setTimeout   *)
(* callbacks are entries of the timer queue.                               *)
(***************************************************************************)
EXTENDS Integers, Sequences, FiniteSets, TLC

VARIABLES
  numPages,   \* useState numPages; 0 stands for null (no document loaded)
  pageRefs,   \* keys of the pageRefs map: pages that have a host element
  layer,      \* layer[p]: the host of p contains a .react-pdf__Page__textContent
  spans,      \* spans[p]: textContent of the <span>s of p's text layer, in order
  hl,         \* hl[p]: indices of the spans of p that carry the highlight attribute
  ring,       \* ring[p]: the host of p carries the ring classes
  scrolled,   \* page whose host was last scrolled into view (0: none yet)
  timers,     \* pending setTimeout callbacks, in creation order
  last,       \* record of the call that has just returned
  content,    \* content[p]: the fragments pdf.js writes into p's text layer
  pageTexts,  \* pageTextsRef: page -> extracted text (<<>>: no entry, read as "")
  exhausted,  \* pages whose last render notification used up both attempts in vain
  extracted,  \* pages with non-empty text stored from the document now loaded
  document,   \* useDocumentProcessing: useState document (NoDocument: null)
  progress,   \* useDocumentProcessing: useState progress
  status,     \* useDocumentProcessing: useState status
  message,    \* useDocumentProcessing: useState message
  uploads,    \* uploadDocument calls that await the backend
  polls,      \* polls[j]: the polling startJobPolling(j) set up, jobs in order of start
  appPageTexts, \* App: useState pageTexts
  readyTimers, \* App: pending setTimeout callbacks of handlePdfReady
  messages,   \* useChat: useState messages
  isLoading,  \* useChat: useState isLoading
  error,      \* useChat: useState error ("": null)
  asked       \* asked[k]: the k-th request of sendQuestion, questions in order

\* the page text cache and the bookkeeping of its extraction
extraction == <<content, pageTexts, exhausted, extracted>>

\* the state of the document-processing hook and of the App component
\* the state of the chat hook
chat == <<messages, isLoading, error, asked>>

application ==
  <<document, progress, status, message, uploads, polls, appPageTexts, readyTimers,
    chat>>

vars == <<numPages, pageRefs, layer, spans, hl, ring, scrolled, timers, last,
          content, pageTexts, exhausted, extracted,
          document, progress, status, message, uploads, polls, appPageTexts,
          readyTimers, messages, isLoading, error, asked>>

----------------------------------------------------------------------------
(* Bounds *)

MaxPages == 2
MaxTimers == 2
MaxSpans == 2
MaxSpanLen == 2
MaxQuoteLen == 4
MaxLegacyTimers == 4

Pages == 1..MaxPages

----------------------------------------------------------------------------
(* Strings *)

Min(S) == CHOOSE x \in S : \A y \in S : x <= y

\* Op applied to the value of v, which is computed once
With(v, Op(_)) == CHOOSE y \in {Op(x) : x \in {v}} : TRUE

LowerLetters == {"a", "b", "c"}
UpperLetters == {"A", "B", "C"}
\* the characters matched by \w and by \s
WordChars == LowerLetters \cup UpperLetters \cup {"0", "1", "_"}
SpaceChars == {" ", "\t", "\n"}

IsSpace(c) == c \in SpaceChars
IsWord(c) == c \in WordChars

LowerChar(c) ==
  CASE c = "A" -> "a"
    [] c = "B" -> "b"
    [] c = "C" -> "c"
    [] OTHER -> c

toLowerCase(str) == With(str, LAMBDA s : [i \in 1..Len(s) |-> LowerChar(s[i])])

Kept(c) == c # ""

\* s.replace(/\s+/g, ' ')
collapseWhitespace(str) ==
  With(str, LAMBDA s :
    SelectSeq([i \in 1..Len(s) |->
                 IF IsSpace(s[i])
                 THEN (IF i > 1 /\ IsSpace(s[i-1]) THEN "" ELSE " ")
                 ELSE s[i]],
              Kept))

\* s.replace(/[^\w\s]/g, ' ')
punctToSpace(str) ==
  With(str, LAMBDA s :
    [i \in 1..Len(s) |-> IF IsWord(s[i]) \/ IsSpace(s[i]) THEN s[i] ELSE " "])

\* s.trim()
trim(str) ==
  With(str, LAMBDA s :
    With({i \in 1..Len(s) : ~IsSpace(s[i])}, LAMBDA solid :
      IF solid = {} THEN <<>>
      ELSE SubSeq(s, Min(solid), CHOOSE i \in solid : \A j \in solid : j <= i)))

normalizeText(text) == trim(punctToSpace(collapseWhitespace(toLowerCase(text))))

RECURSIVE join(_, _)
\* arr.join(sep)
join(arr, sep) ==
  IF Len(arr) = 0 THEN <<>>
  ELSE IF Len(arr) = 1 THEN arr[1]
  ELSE arr[1] \o sep \o join(Tail(arr), sep)

\* hay.indexOf(needle): 0-based, -1 when absent
indexOf(hay, needle) ==
  With(<<hay, needle>>, LAMBDA a :
    With({i \in 0..(Len(a[1]) - Len(a[2])) : SubSeq(a[1], i + 1, i + Len(a[2])) = a[2]},
         LAMBDA at : IF at = {} THEN -1 ELSE Min(at)))

includes(hay, needle) == indexOf(hay, needle) # -1

\* s.substring(0, n)
substring(s, n) == SubSeq(s, 1, IF n < Len(s) THEN n ELSE Len(s))

----------------------------------------------------------------------------
(* highlightQuote: the matcher on the span texts of one page *)

PrefilterLen == 15

\* spanMap[i].normalized
spanNormalized(texts) == [i \in 1..Len(texts) |-> normalizeText(texts[i])]

\* spanMap.map(s => s.normalized).join(' ')
fullPageText(texts) == join(spanNormalized(texts), <<" ">>)

\* normalizeText(spanMap.map(s => s.text).join(' '))
combinedNormalized(texts) == normalizeText(join(texts, <<" ">>))

\* fullPageText.includes(searchQuery.substring(0, Math.min(15, searchQuery.length)))
passesPrefilter(pageText, searchQuery) ==
  includes(pageText, substring(searchQuery, PrefilterLen))

\* [1.0, 0.75, 0.5] in quarters
searchLengths == <<4, 3, 2>>

\* searchQuery.substring(0, Math.floor(searchQuery.length * ratio))
searchText(searchQuery, k) ==
  substring(searchQuery, (Len(searchQuery) * searchLengths[k]) \div 4)

\* the first ratio whose prefix occurs in the combined text (0: none)
matchTier(combined, searchQuery) ==
  With({k \in 1..Len(searchLengths) : indexOf(combined, searchText(searchQuery, k)) # -1},
       LAMBDA hits : IF hits = {} THEN 0 ELSE Min(hits))

RECURSIVE spanStart(_, _)
\* currentPos when the loop reaches span i (1-based) of the normalized spans
spanStart(norms, i) ==
  IF i = 1 THEN 0 ELSE spanStart(norms, i - 1) + Len(norms[i - 1]) + 1

spanEnd(norms, i) == spanStart(norms, i) + Len(norms[i]) + 1

\* spans for which spanStart < matchEnd && spanEnd > matchIndex
overlapSpans(norms, from, to) ==
  {i \in 1..Len(norms) : spanStart(norms, i) < to /\ spanEnd(norms, i) > from}

\* the spans marked for a hit of ratio `tier` on the normalized texts
matchAt(norms, query, combined, pre, tier) ==
  IF tier = 0
  THEN [pre |-> pre, tier |-> 0, from |-> -1, to |-> -1, marked |-> {}]
  ELSE With(indexOf(combined, searchText(query, tier)), LAMBDA from :
         [pre |-> pre, tier |-> tier, from |-> from,
          to |-> from + Len(searchText(query, tier)),
          marked |-> overlapSpans(norms, from, from + Len(searchText(query, tier)))])

\* the search on normalized texts: prefilter, then the ratios
matchNormalized(norms, query, combined) ==
  With(passesPrefilter(join(norms, <<" ">>), query), LAMBDA pre :
    With(IF pre THEN matchTier(combined, query) ELSE 0, LAMBDA tier :
      matchAt(norms, query, combined, pre, tier)))

\* the outcome of the search on the span texts of a page that has spans:
\* pre: the prefilter passed, tier: the ratio that hit, [from, to): the match
\* in the combined text, marked: the spans that get data-pdf-highlight
matchPage(texts, quote) ==
  With(<<spanNormalized(texts), normalizeText(quote), combinedNormalized(texts)>>,
       LAMBDA n : matchNormalized(n[1], n[2], n[3]))

markedSpans(texts, quote) == matchPage(texts, quote).marked

\* a mutant of the clear step: querySelector, so only the first span is cleared
removeFirstHighlight(h, p) ==
  [h EXCEPT ![p] = IF h[p] = {} THEN {} ELSE h[p] \ {Min(h[p])}]

\* textLayer.querySelectorAll('[data-pdf-highlight]').forEach(removeAttribute):
\* every span of p's layer that carries the attribute loses it
removeHighlights(h, p) ==
  [h EXCEPT ![p] = h[p] \ {i \in 1..Len(spans[p]) : i \in h[p]}]

\* highlightQuote returned ok, leaving the highlight state h
Returned(ok, h) == [ok |-> ok, hl |-> h, threw |-> FALSE]

\* a member of null was read: a TypeError leaves highlightQuote, at state h
Thrown(h) == [ok |-> FALSE, hl |-> h, threw |-> TRUE]

\* a highlightQuote that removes the old highlights only once it has a match
highlightQuoteClearOnMatch(p, quote, h) ==
  IF p \notin pageRefs THEN Returned(FALSE, h)
  ELSE IF ~layer[p] THEN Returned(FALSE, h)
  ELSE IF Len(spans[p]) = 0 THEN Returned(FALSE, h)
  ELSE With(markedSpans(spans[p], quote), LAMBDA m :
         IF m = {} THEN Returned(FALSE, h)
         ELSE Returned(TRUE, [h EXCEPT ![p] = m]))

\* a highlightQuote without the two early returns: it reads
\* host.querySelector and textLayer.querySelectorAll whatever host and
\* textLayer are
highlightQuoteUnguarded(p, quote, h) ==
  IF p \notin pageRefs THEN Thrown(h)
  ELSE IF ~layer[p] THEN Thrown(h)
  ELSE With(removeHighlights(h, p), LAMBDA cleared :
         IF Len(spans[p]) = 0 THEN Returned(FALSE, cleared)
         ELSE With(markedSpans(spans[p], quote), LAMBDA m :
                Returned(m # {}, [cleared EXCEPT ![p] = @ \cup m])))

\* highlightQuote(p, quote) on highlight state h: return value and new state.
\* host and textLayer are read only after the returns that test them.
highlightQuote(p, quote, h) ==
  IF p \notin pageRefs THEN Returned(FALSE, h)
  ELSE IF ~layer[p] THEN Returned(FALSE, h)
  ELSE With(removeHighlights(h, p), LAMBDA cleared :
         IF Len(spans[p]) = 0 THEN Returned(FALSE, cleared)
         ELSE With(markedSpans(spans[p], quote), LAMBDA m :
                Returned(m # {}, [cleared EXCEPT ![p] = @ \cup m])))

----------------------------------------------------------------------------
(* jumpTo *)

\* numPages || 1
lastPage == IF numPages = 0 THEN 1 ELSE numPages

\* the pages in a list of attempts
Range(seq) == {seq[i] : i \in 1..Len(seq)}

\* the outcome of a traversal whose match attempts were made on `visited`
Traversal(foundPage, h, visited) ==
  [foundPage |-> foundPage, hl |-> h, searched |-> Range(visited),
   attempts |-> Len(visited), threw |-> FALSE]

\* the traversal ended by an exception of highlightQuote
Aborted(h, visited) == [Traversal(0, h, visited) EXCEPT !.threw = TRUE]

RECURSIVE searchAllPages(_, _, _, _)
\* a traversal that keeps scanning after a success
searchAllPages(pageNum, quote, h, visited) ==
  IF pageNum > lastPage THEN Traversal(0, h, visited)
  ELSE IF pageNum \notin pageRefs THEN searchAllPages(pageNum + 1, quote, h, visited)
  ELSE With(highlightQuote(pageNum, quote, h), LAMBDA r :
         With(searchAllPages(pageNum + 1, quote, r.hl, Append(visited, pageNum)), LAMBDA rest :
           IF r.ok /\ rest.foundPage = 0
           THEN [rest EXCEPT !.foundPage = pageNum]
           ELSE rest))

RECURSIVE searchFromRetrying(_, _, _, _)
\* a traversal that tries a page a second time when the first attempt failed
searchFromRetrying(pageNum, quote, h, visited) ==
  IF pageNum > lastPage THEN Traversal(0, h, visited)
  ELSE IF pageNum \notin pageRefs THEN searchFromRetrying(pageNum + 1, quote, h, visited)
  ELSE With(highlightQuote(pageNum, quote, h), LAMBDA r :
         IF r.ok
         THEN Traversal(pageNum, r.hl, Append(visited, pageNum))
         ELSE With(highlightQuote(pageNum, quote, r.hl), LAMBDA again :
                IF again.ok
                THEN Traversal(pageNum, again.hl, visited \o <<pageNum, pageNum>>)
                ELSE searchFromRetrying(pageNum + 1, quote, again.hl,
                                        visited \o <<pageNum, pageNum>>)))

RECURSIVE searchFrom(_, _, _, _)
\* the for loop of jumpTo from pageNum on; visited: the pages on which
\* highlightQuote has been called so far, in order
searchFrom(pageNum, quote, h, visited) ==
  IF pageNum > lastPage THEN Traversal(0, h, visited)
  ELSE IF pageNum \notin pageRefs THEN searchFrom(pageNum + 1, quote, h, visited)
  ELSE With(highlightQuote(pageNum, quote, h), LAMBDA r :
         IF r.threw THEN Aborted(r.hl, Append(visited, pageNum))
         ELSE IF r.ok
         THEN Traversal(pageNum, r.hl, Append(visited, pageNum))
         ELSE searchFrom(pageNum + 1, quote, r.hl, Append(visited, pageNum)))

\* a traversal that starts at the hinted page
firstSearchedAtHint(target) == IF target = 0 THEN 1 ELSE target

\* let pageNum = 1
firstSearched(target) == 1

\* the page scrolled to when there is no quote
noQuotePage(target) == 1

\* jumpTo has no return statement with a value
jumpToReturn(quote, foundPage) == "undefined"

Call(op, target, quote, foundPage, searched, ret) ==
  [op |-> op, page |-> target, quote |-> quote, foundPage |-> foundPage,
   searched |-> searched, attempts |-> Cardinality(searched), ret |-> ret,
   threw |-> FALSE]

\* no call of the pane's handle is the latest step
NoCall == Call("none", 0, <<>>, 0, {}, "undefined")

Timer(kind, p, delay) == [kind |-> kind, page |-> p, delay |-> delay]

\* el.scrollIntoView() behind `if (el)`
scrollIntoView(p) == IF p \in pageRefs THEN p ELSE scrolled

\* what one jumpTo({page: target, quote, searchPages}) does to the pane
jumpToEffect(target, quote, searchPages) ==
  IF quote = <<>>
  THEN [hl |-> hl, scrolled |-> scrollIntoView(noQuotePage(target)), timers |-> timers,
        foundPage |-> 0, searched |-> {}, attempts |-> 0, threw |-> FALSE,
        ret |-> jumpToReturn(quote, 0)]
  ELSE With(searchFrom(firstSearched(target), quote, hl, <<>>), LAMBDA r :
         IF r.threw
         THEN [hl |-> r.hl, scrolled |-> scrolled, timers |-> timers,
               foundPage |-> 0, searched |-> r.searched,
               attempts |-> r.attempts, threw |-> TRUE, ret |-> "undefined"]
         ELSE IF r.foundPage # 0
         THEN [hl |-> r.hl, scrolled |-> scrolled,
               timers |-> Append(timers, Timer("ring", r.foundPage, 100)),
               foundPage |-> r.foundPage, searched |-> r.searched,
               attempts |-> r.attempts, threw |-> FALSE,
               ret |-> jumpToReturn(quote, r.foundPage)]
         ELSE [hl |-> r.hl, scrolled |-> scrollIntoView(1), timers |-> timers,
               foundPage |-> 0, searched |-> r.searched,
               attempts |-> r.attempts, threw |-> FALSE,
               ret |-> jumpToReturn(quote, 0)])

jumpTo(target, quote, searchPages) ==
  \E e \in {jumpToEffect(target, quote, searchPages)} :
  /\ Len(timers) < MaxTimers
  /\ hl' = e.hl
  /\ scrolled' = e.scrolled
  /\ timers' = e.timers
  /\ last' = [Call("jumpTo", target, quote, e.foundPage, e.searched, e.ret)
                EXCEPT !.attempts = e.attempts, !.threw = e.threw]
  /\ UNCHANGED <<numPages, pageRefs, layer, spans, ring>>
  /\ UNCHANGED extraction
  /\ UNCHANGED application

----------------------------------------------------------------------------
(* timers *)

Remove(s, i) == SubSeq(s, 1, i - 1) \o SubSeq(s, i + 1, Len(s))

\* a timer created earlier with a delay that is not longer fires first
canFire(i) == \A j \in 1..(i - 1) : timers[j].delay > timers[i].delay

\* a mutant of the ring callback: it does not schedule the removal
ringTimerNoClear(i) ==
  LET t == timers[i] IN
  /\ t.kind = "ring"
  /\ canFire(i)
  /\ ring' = [ring EXCEPT ![t.page] = TRUE]
  /\ scrolled' = t.page
  /\ timers' = Remove(timers, i)
  /\ last' = NoCall
  /\ UNCHANGED <<numPages, pageRefs, layer, spans, hl>>
  /\ UNCHANGED extraction
  /\ UNCHANGED application

\* setTimeout(() => { add ring; scrollIntoView; setTimeout(remove ring, 3000) }, 100)
ringTimer(i) ==
  LET t == timers[i] IN
  /\ t.kind = "ring"
  /\ canFire(i)
  /\ ring' = [ring EXCEPT ![t.page] = TRUE]
  /\ scrolled' = t.page
  /\ timers' = Append(Remove(timers, i), [t EXCEPT !.kind = "unring", !.delay = 3000])
  /\ last' = NoCall
  /\ UNCHANGED <<numPages, pageRefs, layer, spans, hl>>
  /\ UNCHANGED extraction
  /\ UNCHANGED application

\* () => el.classList.remove("ring-2", "ring-[var(--accent)]")
unringTimer(i) ==
  LET t == timers[i] IN
  /\ t.kind = "unring"
  /\ canFire(i)
  /\ ring' = [ring EXCEPT ![t.page] = FALSE]
  /\ timers' = Remove(timers, i)
  /\ last' = NoCall
  /\ UNCHANGED <<numPages, pageRefs, layer, spans, hl, scrolled>>
  /\ UNCHANGED extraction
  /\ UNCHANGED application

----------------------------------------------------------------------------
(* the rendering collaborator *)

\* span layouts of the pages of the documents that get loaded
PageLayouts ==
  { << <<"a">> >>,
    << <<"a">>, <<"b">> >> }

Docs == UNION {[1..n -> PageLayouts] : n \in 1..MaxPages}

Quotes == { <<>>, <<"a">>, <<"b">> }

\* page hints (0: none) and searchPages lists of a citation
Hints == 0..MaxPages
SearchPageLists == { <<>>, <<MaxPages>> }

\* the host element an extraction retry holds: the mounted one of its page, or
\* an unmounted one with the text layer it had when it was unmounted
LiveHost == [live |-> TRUE, layer |-> FALSE, spans |-> <<>>]
DetachedHost(p) == [live |-> FALSE, layer |-> layer[p], spans |-> spans[p]]

IsExtract(t) == t.kind = "extract"

\* the pending callbacks that outlive the unmounting of the pages: the
\* extraction retries, which write to the cache from the host they captured
detach(ts) ==
  LET kept == SelectSeq(ts, IsExtract) IN
  [i \in 1..Len(kept) |->
     IF kept[i].host.live
     THEN [kept[i] EXCEPT !.host = DetachedHost(kept[i].page)]
     ELSE kept[i]]

\* A document finished loading: its pages are mounted afresh, without text
\* layers and with nothing scrolled into view.  Ring callbacks still pending
\* for the unmounted hosts act on detached elements only and are dropped here.
\* pageTextsRef is not touched.
documentLoaded(d) ==
  /\ numPages' = Len(d)
  /\ pageRefs' = pageRefs \cup (1..Len(d))
  /\ layer' = [p \in Pages |-> FALSE]
  /\ spans' = [p \in Pages |-> IF p <= Len(d) THEN d[p] ELSE <<>>]
  /\ content' = [p \in Pages |-> IF p <= Len(d) THEN d[p] ELSE <<>>]
  /\ hl' = [p \in Pages |-> {}]
  /\ ring' = [p \in Pages |-> FALSE]
  /\ timers' = detach(timers)
  /\ scrolled' = 0
  /\ exhausted' = {}
  /\ extracted' = {}
  /\ last' = NoCall
  /\ UNCHANGED pageTexts

\* onDocumentLoadSuccess of a pane whose onReady prop does nothing
onDocumentLoadSuccess(d) ==
  /\ documentLoaded(d)
  /\ UNCHANGED application

\* the text layer of page p is (re)built: fresh spans, no attributes
textLayerRender(p) ==
  /\ p \in 1..numPages
  /\ layer' = [layer EXCEPT ![p] = TRUE]
  /\ spans' = [spans EXCEPT ![p] = content[p]]
  /\ hl' = [hl EXCEPT ![p] = {}]
  /\ last' = NoCall
  /\ UNCHANGED <<numPages, pageRefs, ring, scrolled, timers>>
  /\ UNCHANGED extraction
  /\ UNCHANGED application

----------------------------------------------------------------------------
(* the document-processing hook and the App component: initial state *)

\* useState(null); a document without id has id 0, one without title ""
NoDocument == [isNull |-> TRUE, id |-> 0, title |-> "", status |-> ""]

\* the message useChat starts with and clearChat restores
SystemMessage == [who |-> "System", text |-> <<>>, isError |-> FALSE]

InitApplication ==
  /\ messages = <<SystemMessage>>
  /\ isLoading = FALSE
  /\ error = ""
  /\ asked = <<>>
  /\ document = NoDocument
  /\ progress = 0
  /\ status = "idle"
  /\ message = ""
  /\ uploads = 0
  /\ polls = <<>>
  /\ appPageTexts = <<>>
  /\ readyTimers = <<>>

----------------------------------------------------------------------------
Init ==
  /\ numPages = 0
  /\ pageRefs = {}
  /\ layer = [p \in Pages |-> FALSE]
  /\ spans = [p \in Pages |-> <<>>]
  /\ hl = [p \in Pages |-> {}]
  /\ ring = [p \in Pages |-> FALSE]
  /\ scrolled = 0
  /\ timers = <<>>
  /\ last = NoCall
  /\ content = [p \in Pages |-> <<>>]
  /\ pageTexts = <<>>
  /\ exhausted = {}
  /\ extracted = {}
  /\ InitApplication

Next ==
  \/ \E d \in Docs : onDocumentLoadSuccess(d)
  \/ \E p \in Pages : textLayerRender(p)
  \/ \E target \in Hints, quote \in Quotes, searchPages \in SearchPageLists :
       jumpTo(target, quote, searchPages)
  \/ \E i \in 1..Len(timers) : ringTimer(i)
  \/ \E i \in 1..Len(timers) : unringTimer(i)

Spec == Init /\ [][Next]_vars

----------------------------------------------------------------------------
(* the page text cache (pageTextsRef) and its extraction *)

\* pdf.js empties the text layer of p before it writes the fragments again
\* (a render after a change of scale)
textLayerClear(p) ==
  /\ p \in 1..numPages
  /\ layer[p]
  /\ spans[p] # <<>>
  /\ spans' = [spans EXCEPT ![p] = <<>>]
  /\ hl' = [hl EXCEPT ![p] = {}]
  /\ last' = NoCall
  /\ UNCHANGED <<numPages, pageRefs, layer, ring, scrolled, timers>>
  /\ UNCHANGED extraction
  /\ UNCHANGED application

\* pageTextsRef.current.set(p, text)
cacheSet(cache, p, text) == (p :> text) @@ cache

\* pageTextsRef.current.get(i) || ""
cacheGet(cache, i) == IF i \in DOMAIN cache THEN cache[i] ELSE <<>>

\* spans.map((s) => s.textContent).join(" ")
layerText(texts) == join(texts, <<" ">>)

\* what extractText would store from a host with the given text layer
\* (none: it stores nothing and returns false)
extractText(hasLayer, texts) ==
  IF hasLayer /\ trim(layerText(texts)) # <<>>
  THEN [ok |-> TRUE, text |-> layerText(texts)]
  ELSE [ok |-> FALSE, text |-> <<>>]

ExtractTimer(p) == [kind |-> "extract", page |-> p, delay |-> 100, host |-> LiveHost]

\* the timer queue after the retry callback i has run and failed
retryAfter(ts, i) == Remove(ts, i)

\* onRenderSuccess of page p: one attempt now, and a retry in 100 ms if it failed
onPageRender(p) ==
  /\ p \in 1..numPages
  /\ last' = NoCall
  /\ IF p \notin pageRefs
     THEN UNCHANGED <<timers, pageTexts, exhausted, extracted>>
     ELSE \E r \in {extractText(layer[p], spans[p])} :
            IF r.ok
            THEN /\ pageTexts' = cacheSet(pageTexts, p, r.text)
                 /\ extracted' = extracted \cup {p}
                 /\ exhausted' = exhausted \ {p}
                 /\ UNCHANGED timers
            ELSE /\ Len(timers) < MaxTimers
                 /\ timers' = Append(timers, ExtractTimer(p))
                 /\ exhausted' = exhausted \ {p}
                 /\ UNCHANGED <<pageTexts, extracted>>
  /\ UNCHANGED <<numPages, pageRefs, layer, spans, hl, ring, scrolled, content>>
  /\ UNCHANGED application

\* the retry: setTimeout(() => { if (!extractText()) console.log(...) }, 100),
\* on the host that onPageRender captured
extractTimer(i) ==
  LET t == timers[i]
      p == t.page
  IN
  /\ t.kind = "extract"
  /\ canFire(i)
  /\ last' = NoCall
  /\ \E r \in {IF t.host.live THEN extractText(layer[p], spans[p])
                ELSE extractText(t.host.layer, t.host.spans)} :
       IF r.ok
       THEN /\ pageTexts' = cacheSet(pageTexts, p, r.text)
            /\ extracted' = IF t.host.live THEN extracted \cup {p} ELSE extracted \ {p}
            /\ timers' = Remove(timers, i)
            /\ UNCHANGED exhausted
       ELSE /\ timers' = retryAfter(timers, i)
            /\ exhausted' = IF t.host.live THEN exhausted \cup {p} ELSE exhausted
            /\ UNCHANGED <<pageTexts, extracted>>
  /\ UNCHANGED <<numPages, pageRefs, layer, spans, hl, ring, scrolled, content>>
  /\ UNCHANGED application

\* a mutant of forceTextExtraction: like extractText, it keeps the entry of a
\* page whose layer has no text
forcedKeepingBlank(cache, i) ==
  IF i \in pageRefs /\ layer[i] /\ trim(layerText(spans[i])) # <<>>
  THEN cacheSet(cache, i, layerText(spans[i]))
  ELSE cache

\* the cache after the body of the loop of forceTextExtraction for page i
forced(cache, i) ==
  IF i \in pageRefs /\ layer[i]
  THEN cacheSet(cache, i, layerText(spans[i]))
  ELSE cache

RECURSIVE forceFrom(_, _)
\* for (let i = ...; i <= (numPages || 0); i++) { ... }
forceFrom(cache, i) ==
  IF i > numPages THEN cache ELSE forceFrom(forced(cache, i), i + 1)

forceTextExtraction ==
  /\ pageTexts' = forceFrom(pageTexts, 1)
  /\ extracted' = extracted \cup
       {i \in (1..numPages) \cap pageRefs : layer[i] /\ layerText(spans[i]) # <<>>}
  /\ exhausted' = {}
  /\ last' = Call("forceTextExtraction", 0, <<>>, 0, {}, "undefined")
  /\ UNCHANGED <<numPages, pageRefs, layer, spans, hl, ring, scrolled, timers, content>>
  /\ UNCHANGED application

\* a mutant of the entries of getPageTexts: pages without text are left out
pageEntriesWithText(cache) ==
  SelectSeq([i \in 1..numPages |-> [page |-> i, text |-> cacheGet(cache, i)]],
            LAMBDA e : e.text # <<>>)

\* arr after the loop of getPageTexts
pageEntries(cache) ==
  [i \in 1..numPages |-> [page |-> i, text |-> cacheGet(cache, i)]]

\* a mutant of getPageTexts: it stores the "" it reports for a missing entry
getPageTextsCaching ==
  /\ last' = Call("getPageTexts", 0, <<>>, 0, {}, pageEntries(pageTexts))
  /\ pageTexts' = [i \in (DOMAIN pageTexts) \cup (1..numPages) |-> cacheGet(pageTexts, i)]
  /\ UNCHANGED <<numPages, pageRefs, layer, spans, hl, ring, scrolled, timers>>
  /\ UNCHANGED <<content, exhausted, extracted>>
  /\ UNCHANGED application

getPageTexts ==
  /\ last' = Call("getPageTexts", 0, <<>>, 0, {}, pageEntries(pageTexts))
  /\ UNCHANGED <<numPages, pageRefs, layer, spans, hl, ring, scrolled, timers>>
  /\ UNCHANGED extraction
  /\ UNCHANGED application

\* the cache on its own: rendering, extraction and the two cache operations
NextExtract ==
  \/ \E d \in Docs : onDocumentLoadSuccess(d)
  \/ \E p \in Pages : textLayerRender(p)
  \/ \E p \in Pages : textLayerClear(p)
  \/ \E p \in Pages : onPageRender(p)
  \/ \E i \in 1..Len(timers) : extractTimer(i)
  \/ forceTextExtraction
  \/ getPageTexts

ExtractSpec == Init /\ [][NextExtract]_vars

\* extraction together with the search of jumpTo
NextSearch ==
  \/ \E d \in Docs : onDocumentLoadSuccess(d)
  \/ \E p \in Pages : textLayerRender(p)
  \/ \E p \in Pages : onPageRender(p)
  \/ \E i \in 1..Len(timers) : extractTimer(i)
  \/ forceTextExtraction
  \/ getPageTexts
  \/ \E quote \in {<<"a">>, <<"b">>} : jumpTo(0, quote, <<>>)
  \/ \E i \in 1..Len(timers) : ringTimer(i)
  \/ \E i \in 1..Len(timers) : unringTimer(i)

SearchSpec == Init /\ [][NextSearch]_vars

\* the three operations of the pane's handle on every state of the rendering
NextHandle ==
  \/ \E d \in Docs : onDocumentLoadSuccess(d)
  \/ \E p \in Pages : textLayerRender(p)
  \/ \E p \in Pages : textLayerClear(p)
  \/ \E quote \in {<<>>, <<"a">>} : jumpTo(0, quote, <<>>)
  \/ getPageTexts
  \/ forceTextExtraction
  \/ \E i \in 1..Len(timers) : ringTimer(i)
  \/ \E i \in 1..Len(timers) : unringTimer(i)

HandleSpec == Init /\ [][NextHandle]_vars

----------------------------------------------------------------------------
(* Navigation: properties of jumpTo *)

JustJumped == last.op = "jumpTo"
QuoteJump == JustJumped /\ last.quote # <<>>

\* the rendered pages of 1..numPages on which highlightQuote(p, quote) succeeds
matchingPages(quote) ==
  {p \in (1..lastPage) \cap pageRefs : highlightQuote(p, quote, hl).ok}

\* C1: a jumpTo with a non-empty quote finds the lowest-numbered rendered page
\* on which highlightQuote succeeds, highlights it and sets the timer that
\* scrolls to it, and neither searches nor changes any higher-numbered page.
C1_FirstMatchWins ==
  [][ (last'.op = "jumpTo" /\ last'.quote # <<>>) =>
        LET found == last'.foundPage
            hits == matchingPages(last'.quote)
        IN /\ found = IF hits = {} THEN 0 ELSE Min(hits)
           /\ found # 0 =>
                /\ hl'[found] # {}
                /\ timers' = Append(timers, Timer("ring", found, 100))
                /\ \A p \in Pages : p > found =>
                     hl'[p] = hl[p] /\ p \notin last'.searched ]_vars

\* C1 witness: a page was found while a higher-numbered page matches too and
\* still carries an earlier highlight
C1_Witness ==
  /\ QuoteJump
  /\ last.foundPage # 0
  /\ \E p \in matchingPages(last.quote) : p > last.foundPage /\ hl[p] # {}

\* C2: at any moment the highlighted fragments lie on one page only
C2_OnePassage == Cardinality({p \in Pages : hl[p] # {}}) <= 1

\* C4: after a jumpTo whose non-empty quote matched on no page of the loaded
\* document, page 1 is the page scrolled into view and no fragment of any page
\* is highlighted.
C4_NoMatchClearsAll ==
  (QuoteJump /\ last.foundPage = 0 /\ numPages >= 1) =>
    (scrolled = 1 /\ \A p \in Pages : hl[p] = {})

\* C4 witness: the quote matched nowhere although pages with text were searched,
\* and the timer of an earlier successful jumpTo is still pending
C4_Witness ==
  /\ QuoteJump /\ last.foundPage = 0 /\ numPages >= 1
  /\ Len(timers) > 0
  /\ \E p \in last.searched : layer[p] /\ Len(spans[p]) > 0

\* C5: a jumpTo that exhausted all pages hands its caller an outcome that
\* differs from the outcome of every successful match
C5_NotFoundSignalled ==
  (QuoteJump /\ last.foundPage = 0 /\ numPages >= 1) =>
    \A p \in Pages : last.ret # jumpToReturn(last.quote, p)

\* C6: a jumpTo without a quote scrolls to the hinted page when a hint is given
\* and to page 1 otherwise
C6_NoQuoteScrollsToHint ==
  (JustJumped /\ last.quote = <<>> /\ numPages >= 1) =>
    scrolled = (IF last.page \in 1..numPages THEN last.page ELSE 1)

C20_RingAutoClears ==
  timers = <<>> => \A p \in Pages : ~ring[p]

\* C20 witness: a jumpTo found its quote on page 2, the ring was put on that
\* page when the page was scrolled to, and every timer has fired since
C20_Witness ==
  /\ timers = <<>>
  /\ scrolled = 2 /\ hl[2] # {}
  /\ ~ring[2]

\* C22: a jumpTo with a quote calls highlightQuote at most once per page, and
\* when no page matched it has called it exactly once on every page of
\* 1..numPages that has a host element
C22_OneAttemptPerPage ==
  QuoteJump =>
    /\ last.attempts = Cardinality(last.searched)
    /\ last.attempts <= lastPage
    /\ last.foundPage = 0 => last.searched = (1..lastPage) \cap pageRefs

\* C22 witness: a traversal of two pages that matched on neither
C22_Witness ==
  QuoteJump /\ last.foundPage = 0 /\ last.attempts = 2

----------------------------------------------------------------------------
(* The page text cache: properties of extraction *)

\* C11: after a jumpTo with a quote, a page whose extraction used up its retry
\* budget without text (and for which forceTextExtraction has not run since)
\* has not had its fragments searched and carries no highlight
C11_ExhaustedPageExcluded ==
  QuoteJump =>
    \A p \in exhausted : ~(p \in last.searched /\ layer[p]) /\ hl[p] = {}

\* C12: a render notification makes one attempt and arms at most one retry;
\* the retry makes one attempt and arms nothing, so it leaves one timer less;
\* and when the retry fails too for a page whose fragments have had no text in
\* this document, the text reported for the page is ""
C12_RetriesBounded ==
  [][ /\ \A p \in Pages : onPageRender(p) => Len(timers') <= Len(timers) + 1
      /\ \A i \in 1..Len(timers) :
            (timers[i].kind = "extract" /\ extractTimer(i)) =>
              /\ Len(timers') = Len(timers) - 1
              /\ (/\ timers[i].host.live
                  /\ timers[i].page \notin extracted
                  /\ ~extractText(layer[timers[i].page], spans[timers[i].page]).ok) =>
                    cacheGet(pageTexts', timers[i].page) = <<>> ]_vars

\* C13: for every page of the loaded document the text reported is empty or
\* was extracted from that document, never from one loaded before it
C13_CacheResetOnReplace ==
  \A p \in 1..numPages : cacheGet(pageTexts, p) = <<>> \/ p \in extracted

JustForced == last.op = "forceTextExtraction"

\* the pages of the document that have a host element with a text layer
renderedPages == {p \in (1..numPages) \cap pageRefs : layer[p]}

\* C14: right after forceTextExtraction the text reported for every rendered
\* page of the document is the space-joined text of its fragments as they are
C14_ForceReflectsFragments ==
  JustForced =>
    \A p \in renderedPages : cacheGet(pageTexts, p) = join(spans[p], <<" ">>)

\* C14 witness: forceTextExtraction has overwritten the text extracted earlier
\* for a page whose layer has no fragments at the time of the call, and has
\* stored the joined text of a page with two fragments
C14_Witness ==
  /\ JustForced
  /\ \E p \in renderedPages :
       p \in extracted /\ spans[p] = <<>> /\ cacheGet(pageTexts, p) = <<>>
  /\ \E p \in renderedPages : Len(spans[p]) = 2 /\ Len(cacheGet(pageTexts, p)) = 3

\* C15: the text reported for a page is empty exactly when no extraction has
\* stored text for it; every operation on a loaded document keeps it so, and
\* in particular none makes a non-empty text empty again
C15_EmptyIffNotExtracted ==
  [][ (/\ ~(\E d \in Docs : onDocumentLoadSuccess(d))
       /\ \A p \in 1..numPages : (cacheGet(pageTexts, p) = <<>>) <=> (p \notin extracted)) =>
        \A p \in 1..numPages :
          /\ (cacheGet(pageTexts', p) = <<>>) <=> (p \notin extracted')
          /\ cacheGet(pageTexts, p) # <<>> => cacheGet(pageTexts', p) # <<>> ]_vars

\* C16: getPageTexts returns one entry per page 1..numPages, in ascending page
\* order (none without a document), the text of each being the cache entry of
\* the page or "" when it has none, and it leaves the cache as it was
C16_SnapshotOfCache ==
  [][ last'.op = "getPageTexts" =>
        /\ Len(last'.ret) = numPages
        /\ \A i \in 1..numPages :
             /\ last'.ret[i].page = i
             /\ last'.ret[i].text = IF i \in DOMAIN pageTexts THEN pageTexts[i] ELSE <<>>
        /\ pageTexts' = pageTexts ]_vars

\* C16 witness: a snapshot of a two-page document of which one page has text
\* in the cache and the other has no entry
C16_Witness ==
  /\ last.op = "getPageTexts"
  /\ Len(last.ret) = 2
  /\ \E i, j \in 1..2 : last.ret[i].text # <<>> /\ j \notin DOMAIN pageTexts

\* page p offers nothing to match: no host, no text layer or no fragments
degraded(p) == p \notin pageRefs \/ ~layer[p] \/ spans[p] = <<>>

\* C23: jumpTo, getPageTexts and forceTextExtraction never end with an
\* exception, and a jumpTo with a quote on a rendering in which every page
\* lacks its host, its text layer or its fragments finds nothing, leaves no
\* fragment highlighted and scrolls to page 1 when that page has a host
C23_NeverThrows ==
  /\ last.op \in {"jumpTo", "getPageTexts", "forceTextExtraction"} => ~last.threw
  /\ (QuoteJump /\ \A p \in 1..lastPage : degraded(p)) =>
       /\ last.foundPage = 0
       /\ \A p \in Pages : hl[p] = {}
       /\ 1 \in pageRefs => scrolled = 1

\* C23 witness: a jumpTo with a quote on a two-page document whose page 1 has
\* no text layer and whose page 2 has a text layer without fragments
C23_Witness ==
  /\ QuoteJump
  /\ numPages = 2
  /\ ~layer[1]
  /\ layer[2] /\ spans[2] = <<>>

\* C24: jumpTo (with the highlightQuote calls it makes) and getPageTexts leave
\* the page text cache as it was; the extraction of a page render, its retry
\* and forceTextExtraction leave the highlight and the text of every fragment
\* as they were
C24_WritersSeparated ==
  [][ /\ last'.op \in {"jumpTo", "getPageTexts"} => pageTexts' = pageTexts
      /\ (\/ \E p \in Pages : onPageRender(p)
          \/ \E i \in 1..Len(timers) : extractTimer(i)
          \/ forceTextExtraction) => (hl' = hl /\ spans' = spans) ]_vars

\* C24 witness: forceTextExtraction has run on a page that carries a highlight
\* and whose text is in the cache
C24_Witness ==
  /\ JustForced
  /\ \E p \in renderedPages : hl[p] # {} /\ cacheGet(pageTexts, p) # <<>>

----------------------------------------------------------------------------
(* The matcher on its own: one rendered page, every span layout and every   *)
(* quote within the bounds, highlightQuote applied once.                    *)

MatchChars == {"a", "b", ".", " "}

StringsUpTo(n) == UNION {[1..k -> MatchChars] : k \in 0..n}

MatchLayouts == UNION {[1..k -> StringsUpTo(MaxSpanLen)] : k \in 0..MaxSpans}

MatchQuotes == StringsUpTo(MaxQuoteLen)

InitMatch ==
  /\ numPages = 1
  /\ pageRefs = {1}
  /\ layer = [p \in Pages |-> p = 1]
  /\ \E texts \in MatchLayouts : spans = [p \in Pages |-> IF p = 1 THEN texts ELSE <<>>]
  /\ content = spans
  /\ pageTexts = <<>>
  /\ exhausted = {}
  /\ extracted = {}
  /\ InitApplication
  /\ hl = [p \in Pages |-> {}]
  /\ ring = [p \in Pages |-> FALSE]
  /\ scrolled = 0
  /\ timers = <<>>
  /\ \E quote \in MatchQuotes : last = Call("input", 1, quote, 0, {}, "undefined")

\* const success = highlightQuote(pageNum, quote)
highlightQuoteCall ==
  /\ last.op = "input"
  /\ \E r \in {highlightQuote(last.page, last.quote, hl)} :
     /\ hl' = r.hl
     /\ last' = Call("highlightQuote", last.page, last.quote,
                     IF r.ok THEN last.page ELSE 0, {last.page},
                     IF r.ok THEN "true" ELSE "false")
  /\ UNCHANGED <<numPages, pageRefs, layer, spans, ring, scrolled, timers>>
  /\ UNCHANGED extraction
  /\ UNCHANGED application

NextMatch == highlightQuoteCall

MatchSpec == InitMatch /\ [][NextMatch]_vars

Matched == last.op = "highlightQuote"
matchedTexts == spans[last.page]
matchedQuery == normalizeText(last.quote)

\* s occurs in the page text the prefilter reads and in the one the ratios search
pageHas(texts, s) ==
  includes(fullPageText(texts), s) /\ includes(combinedNormalized(texts), s)

pageLacks(texts, s) ==
  ~includes(fullPageText(texts), s) /\ ~includes(combinedNormalized(texts), s)

\* C8: when the normalized page text contains the whole normalized quote (not
\* empty), highlightQuote returns true and highlights at least one fragment
C8_ExactMatches ==
  (Matched /\ matchedQuery # <<>> /\ pageHas(matchedTexts, matchedQuery)) =>
    (last.ret = "true" /\ hl[last.page] # {})

\* C9: when the normalized quote and its 75% prefix are absent from the page
\* text but its (non-empty) 50% prefix is present, highlightQuote succeeds
C9_HalfPrefixMatches ==
  (/\ Matched
   /\ searchText(matchedQuery, 3) # <<>>
   /\ pageLacks(matchedTexts, searchText(matchedQuery, 1))
   /\ pageLacks(matchedTexts, searchText(matchedQuery, 2))
   /\ pageHas(matchedTexts, searchText(matchedQuery, 3))) =>
    last.ret = "true"

\* C10: when a match was found in the combined text, the offsets accumulated
\* from the normalized fragments are the fragments' positions in that text (the
\* text is the space-joined normalized fragments), and the highlighted
\* fragments are one contiguous non-empty run
C10_MatchMapsToOverlap ==
  (/\ Matched
   /\ Len(matchedTexts) > 0
   /\ matchPage(matchedTexts, last.quote).tier # 0
   /\ matchPage(matchedTexts, last.quote).to > matchPage(matchedTexts, last.quote).from) =>
    /\ combinedNormalized(matchedTexts) = fullPageText(matchedTexts)
    /\ hl[last.page] # {}
    /\ \A i, j \in hl[last.page] : \A k \in i..j : k \in hl[last.page]

\* C17: normalizing a normalized quote changes nothing
C17_NormalizeIdempotent ==
  normalizeText(normalizeText(last.quote)) = normalizeText(last.quote)

\* s without what the matching is to ignore: letter case, punctuation standing
\* for whitespace, the length of whitespace runs
insensitiveKey(s) == collapseWhitespace(punctToSpace(toLowerCase(s)))

\* s and t differ only in case, in the length of whitespace runs and in
\* punctuation where the other has whitespace
differOnlyInsensitively(s, t) == insensitiveKey(s) = insensitiveKey(t)

\* C18: a quote and a page text that differ only in letter case, in the length
\* of whitespace runs or in punctuation standing where the other has
\* whitespace normalize to the same string
C18_NormalizeInsensitive ==
  differOnlyInsensitively(last.quote, join(matchedTexts, <<" ">>)) =>
    normalizeText(last.quote) = normalizeText(join(matchedTexts, <<" ">>))

\* the fragments whose offsets overlap the match, and their two neighbours
matchedRange == markedSpans(matchedTexts, last.quote)
neighbours(range) ==
  {i \in 1..Len(matchedTexts) : i + 1 \in range \/ i - 1 \in range}

\* C19: when highlightQuote has matched a fragment range, every fragment of the
\* range carries the highlight, and so do the fragment before its first and
\* the fragment after its last, where the page has them
C19_NeighboursMarked ==
  (Matched /\ matchedRange # {}) =>
    \A i \in matchedRange \cup neighbours(matchedRange) : i \in hl[last.page]

\* C21: the clear step of highlightQuote leaves no fragment of the page's text
\* layer with the highlight attribute, changes nothing when nothing is
\* highlighted, and run a second time leaves what the first run left
C21_ClearIdempotent ==
  LET once == removeHighlights(hl, last.page) IN
  /\ once[last.page] = {}
  /\ removeHighlights(once, last.page) = once
  /\ hl[last.page] = {} => once = hl

\* C21 witness: the clear step applied to a page with two highlighted fragments
C21_Witness == Matched /\ Cardinality(hl[last.page]) >= 2

----------------------------------------------------------------------------
(* The older copy of the pane (the second component of ChatPane.jsx): jumpTo *)
(* goes to the hinted page and defers the highlight with a timer.  Here hl  *)
(* holds the spans that carry data-hl.                                      *)

\* (s || "").replace(/\s+/g, " ").trim().toLowerCase()
norm(s) == toLowerCase(trim(collapseWhitespace(s)))

\* s.slice(from, to) for 0 <= from
slice(s, from, to) == SubSeq(s, from + 1, IF to < Len(s) THEN to ELSE Len(s))

AnchorHalf == 7
MinWordLen == 3

\* q.slice(Math.max(0, Math.floor(q.length / 2) - 7), Math.floor(q.length / 2) + 7)
anchorOf(q) ==
  LET mid == Len(q) \div 2
  IN slice(q, IF mid - AnchorHalf > 0 THEN mid - AnchorHalf ELSE 0, mid + AnchorHalf)

RECURSIVE split(_)
\* q.split(' ')
split(q) ==
  LET at == indexOf(q, <<" ">>)
  IN IF at = -1 THEN <<q>>
     ELSE <<SubSeq(q, 1, at)>> \o split(SubSeq(q, at + 2, Len(q)))

LongWord(w) == Len(w) > MinWordLen

\* q.split(' ').filter(w => w.length > 3)
wordsOf(q) == SelectSeq(split(q), LongWord)

\* the first span whose norm(textContent) includes key (0: none)
firstSpanWith(texts, key) ==
  LET hits == {i \in 1..Len(texts) : includes(norm(texts[i]), key)}
  IN IF hits = {} THEN 0 ELSE Min(hits)

\* strategy 3: the first word, in quote order, that some span includes
firstWordSpan(texts, q) ==
  LET ws == wordsOf(q)
      hits == {k \in 1..Len(ws) : firstSpanWith(texts, ws[k]) # 0}
  IN IF hits = {} THEN 0 ELSE firstSpanWith(texts, ws[Min(hits)])

\* a mutant: one pass over the spans, each tested against all strategies
legacyMatchSpanOnePass(texts, q) ==
  LET hits == {i \in 1..Len(texts) :
                 \/ includes(norm(texts[i]), q)
                 \/ includes(norm(texts[i]), anchorOf(q))
                 \/ \E k \in 1..Len(wordsOf(q)) : includes(norm(texts[i]), wordsOf(q)[k])}
  IN IF hits = {} THEN 0 ELSE Min(hits)

\* the span the three strategies settle on (0: none)
legacyMatchSpan(texts, q) ==
  IF firstSpanWith(texts, q) # 0 THEN firstSpanWith(texts, q)
  ELSE IF firstSpanWith(texts, anchorOf(q)) # 0 THEN firstSpanWith(texts, anchorOf(q))
  ELSE firstWordSpan(texts, q)

\* [span.previousElementSibling, span, span.nextElementSibling].filter(Boolean)
highlightSpan(i, n) == {i - 1, i, i + 1} \cap (1..n)

\* the older highlightQuote(p, quote) on highlight state h
legacyHighlightQuote(p, quote, h) ==
  IF p \notin pageRefs THEN [ok |-> FALSE, hl |-> h]
  ELSE IF ~layer[p] THEN [ok |-> FALSE, hl |-> h]
  ELSE LET cleared == [h EXCEPT ![p] = {}]
           q == norm(quote)
       IN IF q = <<>> THEN [ok |-> FALSE, hl |-> cleared]
          ELSE IF Len(spans[p]) = 0 THEN [ok |-> FALSE, hl |-> cleared]
          ELSE LET i == legacyMatchSpan(spans[p], q) IN
               IF i = 0 THEN [ok |-> FALSE, hl |-> cleared]
               ELSE [ok |-> TRUE,
                     hl |-> [cleared EXCEPT ![p] = highlightSpan(i, Len(spans[p]))]]

\* Math.min(Math.max(target || 1, 1), numPages || 1)
clampPage(target) ==
  LET t == IF target = 0 THEN 1 ELSE target
  IN IF t > lastPage THEN lastPage ELSE t

\* stale: a later jumpTo has started since the jumpTo that set the timer
LegacyTimer(kind, p, delay, quote) ==
  [kind |-> kind, page |-> p, delay |-> delay, quote |-> quote, stale |-> FALSE]

supersede(ts) == [i \in 1..Len(ts) |-> [ts[i] EXCEPT !.stale = TRUE]]

legacyJumpTo(target, quote) ==
  LET p == clampPage(target) IN
  /\ Len(timers) + 2 <= MaxLegacyTimers
  /\ last' = Call("jumpTo", target, quote, 0, {}, "undefined")
  /\ IF p \notin pageRefs
     THEN /\ timers' = supersede(timers)
          /\ UNCHANGED <<ring, scrolled>>
     ELSE /\ ring' = [ring EXCEPT ![p] = TRUE]
          /\ scrolled' = p
          /\ timers' = supersede(timers)
                         \o <<LegacyTimer("unring", p, 2000, <<>>)>>
                         \o (IF quote # <<>>
                             THEN <<LegacyTimer("highlight", p, 300, quote)>>
                             ELSE <<>>)
  /\ UNCHANGED <<numPages, pageRefs, layer, spans, hl>>
  /\ UNCHANGED extraction
  /\ UNCHANGED application

\* setTimeout(() => el.classList.remove(...), 2000)
legacyUnringTimer(i) ==
  LET t == timers[i] IN
  /\ t.kind = "unring"
  /\ canFire(i)
  /\ ring' = [ring EXCEPT ![t.page] = FALSE]
  /\ timers' = Remove(timers, i)
  /\ last' = NoCall
  /\ UNCHANGED <<numPages, pageRefs, layer, spans, hl, scrolled>>
  /\ UNCHANGED extraction
  /\ UNCHANGED application

\* setTimeout(() => { const success = highlightQuote(p, quote); ... }, 300)
legacyHighlightTimer(i) ==
  LET t == timers[i] IN
  /\ t.kind = "highlight"
  /\ canFire(i)
  /\ hl' = legacyHighlightQuote(t.page, t.quote, hl).hl
  /\ timers' = Remove(timers, i)
  /\ last' = NoCall
  /\ UNCHANGED <<numPages, pageRefs, layer, spans, ring, scrolled>>
  /\ UNCHANGED extraction
  /\ UNCHANGED application

NextLegacy ==
  \/ \E d \in Docs : onDocumentLoadSuccess(d)
  \/ \E p \in Pages : textLayerRender(p)
  \/ \E target \in Hints, quote \in Quotes : legacyJumpTo(target, quote)
  \/ \E i \in 1..Len(timers) : legacyUnringTimer(i)
  \/ \E i \in 1..Len(timers) : legacyHighlightTimer(i)

SpecLegacy == Init /\ [][NextLegacy]_vars

\* C3: the highlight that a jumpTo deferred with its timer is never applied
\* once a later jumpTo has started
C3_StaleHighlightNeverApplied ==
  [][ \A i \in 1..Len(timers) :
        (timers[i].kind = "highlight" /\ timers[i].stale) =>
          ~(legacyHighlightTimer(i) /\ hl'[timers[i].page] # {}) ]_vars

----------------------------------------------------------------------------
(* The three strategies of the older highlightQuote on their own: quotes     *)
(* long enough for the anchor to be a proper slice and for words longer than *)
(* three characters, on every layout of a few fragment texts.                *)

MaxTierSpans == 3

\* "abcd efgh ijkl mnop", "efgh abcd", "ab cd"
TierQuotes ==
  { <<"a", "b", "c", "d", " ", "e", "f", "g", "h", " ", "i", "j", "k", "l", " ", "m", "n", "o", "p">>,
    <<"e", "f", "g", "h", " ", "a", "b", "c", "d">>,
    <<"a", "b", " ", "c", "d">> }

\* the first quote in full, a text with its anchor only ("cd efgh ijkl m"),
\* single words of the quotes, and a text with none of them
TierTexts ==
  { <<"a", "b", "c", "d", " ", "e", "f", "g", "h", " ", "i", "j", "k", "l", " ", "m", "n", "o", "p">>,
    <<"x", "c", "d", " ", "e", "f", "g", "h", " ", "i", "j", "k", "l", " ", "m", "x">>,
    <<"a", "b", "c", "d">>,
    <<"e", "f", "g", "h">>,
    <<"z", "z">> }

TierLayouts == UNION {[1..k -> TierTexts] : k \in 1..MaxTierSpans}

InitTier ==
  /\ numPages = 1
  /\ pageRefs = {1}
  /\ layer = [p \in Pages |-> p = 1]
  /\ \E texts \in TierLayouts : spans = [p \in Pages |-> IF p = 1 THEN texts ELSE <<>>]
  /\ content = spans
  /\ pageTexts = <<>>
  /\ exhausted = {}
  /\ extracted = {}
  /\ InitApplication
  /\ hl = [p \in Pages |-> {}]
  /\ ring = [p \in Pages |-> FALSE]
  /\ scrolled = 0
  /\ timers = <<>>
  /\ \E quote \in TierQuotes : last = Call("input", 1, quote, 0, {}, "undefined")

\* highlightQuote(p, quote) of the older pane, as its timer calls it
legacyHighlightQuoteCall ==
  /\ last.op = "input"
  /\ \E r \in {legacyHighlightQuote(last.page, last.quote, hl)} :
     /\ hl' = r.hl
     /\ last' = Call("legacyHighlightQuote", last.page, last.quote,
                     IF r.ok THEN last.page ELSE 0, {last.page},
                     IF r.ok THEN "true" ELSE "false")
  /\ UNCHANGED <<numPages, pageRefs, layer, spans, ring, scrolled, timers>>
  /\ UNCHANGED extraction
  /\ UNCHANGED application

NextTier == legacyHighlightQuoteCall

TierSpec == InitTier /\ [][NextTier]_vars

\* the fragments of the page whose normalized text includes key
fragmentsWith(key) == {i \in 1..Len(spans[1]) : includes(norm(spans[1][i]), key)}

\* the slice of q from max(0, mid - 7) to mid + 7, mid the middle of q
centredSlice(q) ==
  LET mid == Len(q) \div 2
      from == IF mid - 7 > 0 THEN mid - 7 ELSE 0
      to == IF mid + 7 < Len(q) THEN mid + 7 ELSE Len(q)
  IN SubSeq(q, from + 1, to)

\* the fragment the strategies must settle on for the normalized quote q:
\* Exact, else Anchor, else the first word longer than 3 characters, in quote
\* order, that some fragment includes; the first fragment in each case (0: none)
tieredFragment(q) ==
  LET ws == split(q)
      found == {k \in 1..Len(ws) : Len(ws[k]) > 3 /\ fragmentsWith(ws[k]) # {}}
  IN IF fragmentsWith(q) # {} THEN Min(fragmentsWith(q))
     ELSE IF fragmentsWith(centredSlice(q)) # {} THEN Min(fragmentsWith(centredSlice(q)))
     ELSE IF found # {} THEN Min(fragmentsWith(ws[Min(found)]))
     ELSE 0

\* C25: the older highlightQuote tries Exact, then Anchor, then Word, a later
\* strategy only when the earlier ones matched no fragment, and highlights the
\* first fragment that satisfies the first strategy that succeeds
C25_StrategyOrder ==
  last.op = "legacyHighlightQuote" =>
    LET f == tieredFragment(norm(last.quote)) IN
    /\ (last.ret = "true") <=> (f # 0)
    /\ f # 0 => hl[1] = {f - 1, f, f + 1} \cap (1..Len(spans[1]))
    /\ f = 0 => hl[1] = {}

\* C25 witness: the first fragment has the anchor only and the third has the
\* whole quote, so Exact succeeds on the third
C25_Witness ==
  /\ last.op = "legacyHighlightQuote"
  /\ Len(spans[1]) = 3
  /\ fragmentsWith(norm(last.quote)) = {3}
  /\ 1 \in fragmentsWith(centredSlice(norm(last.quote)))
  /\ Len(centredSlice(norm(last.quote))) < Len(norm(last.quote))

----------------------------------------------------------------------------
(* useDocumentProcessing: upload and job-status polling.  An async function  *)
(* is one action up to its await and one action for each way the awaited     *)
(* promise settles.  The 150 interval ticks that fit into the 5 minutes      *)
(* before the cleanup timer are scaled down to MaxPollTicks.                 *)

MaxJobs == 2
MaxPollTicks == 2

\* what the backend answers to GET /jobs/{id}; title "": none
JobStatuses ==
  [status : {"processing", "ready", "failed"}, title : {"", "server"},
   progress : {0, 50, 100}]

\* jobStatus.message || `Status: ${jobStatus.status}`
jobMessage(st) ==
  IF st = "ready" THEN "Status: ready"
  ELSE IF st = "failed" THEN "Status: failed" ELSE "Status: processing"

Terminal(st) == st = "ready" \/ st = "failed"

\* a mutant of startJobPolling: no cleanup timer is set
startedPollNoCleanup ==
  [active |-> TRUE, ticks |-> 0, cleanup |-> FALSE, inflight |-> 0, terminal |-> FALSE]

\* startJobPolling: the interval is set, the cleanup timer is pending, no tick
\* has run, no request is in flight and no response has reported 'ready' or
\* 'failed'.
startedPoll ==
  [active |-> TRUE, ticks |-> 0, cleanup |-> TRUE, inflight |-> 0, terminal |-> FALSE]

\* updateProgress('uploading', 10); setMessage(...); await apiService.uploadDocument(file)
uploadDocument ==
  /\ uploads + Len(polls) < MaxJobs
  /\ status' = "uploading"
  /\ progress' = 10
  /\ message' = "Uploading document..."
  /\ uploads' = uploads + 1
  /\ last' = NoCall
  /\ UNCHANGED <<document, polls, appPageTexts, readyTimers>>
  /\ UNCHANGED chat
  /\ UNCHANGED <<numPages, pageRefs, layer, spans, hl, ring, scrolled, timers>>
  /\ UNCHANGED extraction

\* the upload succeeded: setDocument, updateProgress('queued', 20), setMessage,
\* startJobPolling(result.document_id), return result
uploadResolved ==
  /\ uploads > 0
  /\ uploads' = uploads - 1
  /\ document' = [isNull |-> FALSE, id |-> Len(polls) + 1, title |-> "file",
                  status |-> "queued"]
  /\ status' = "queued"
  /\ progress' = 20
  /\ message' = "Document queued for processing..."
  /\ polls' = Append(polls, startedPoll)
  /\ last' = Call("uploadDocument", 0, <<>>, 0, {}, "result")
  /\ UNCHANGED <<appPageTexts, readyTimers>>
  /\ UNCHANGED chat
  /\ UNCHANGED <<numPages, pageRefs, layer, spans, hl, ring, scrolled, timers>>
  /\ UNCHANGED extraction

\* a mutant of the catch block: the error is not thrown again
uploadFailureSwallowed ==
  [status |-> "failed", progress |-> 0, message |-> "Upload failed", threw |-> FALSE]

\* the catch block of uploadDocument: updateProgress('failed', 0),
\* setMessage(`Upload failed: ...`), throw error
uploadFailure ==
  [status |-> "failed", progress |-> 0, message |-> "Upload failed", threw |-> TRUE]

\* the upload failed
uploadRejected ==
  /\ uploads > 0
  /\ uploads' = uploads - 1
  /\ status' = uploadFailure.status
  /\ progress' = uploadFailure.progress
  /\ message' = uploadFailure.message
  /\ last' = [Call("uploadDocument", 0, <<>>, 0, {}, "undefined")
                EXCEPT !.threw = uploadFailure.threw]
  /\ UNCHANGED <<document, polls, appPageTexts, readyTimers>>
  /\ UNCHANGED chat
  /\ UNCHANGED <<numPages, pageRefs, layer, spans, hl, ring, scrolled, timers>>
  /\ UNCHANGED extraction

\* a tick of the interval of job j: apiService.getJobStatus(jobId) is awaited
pollTick(j) ==
  /\ polls[j].active
  /\ polls[j].ticks < MaxPollTicks
  /\ polls' = [polls EXCEPT ![j].ticks = @ + 1, ![j].inflight = @ + 1]
  /\ last' = NoCall
  /\ UNCHANGED <<document, progress, status, message, uploads, appPageTexts, readyTimers>>
  /\ UNCHANGED chat
  /\ UNCHANGED <<numPages, pageRefs, layer, spans, hl, ring, scrolled, timers>>
  /\ UNCHANGED extraction

\* a mutant of the response handler: the interval is never cleared
afterResponseKeepPolling(poll, st) ==
  [poll EXCEPT !.inflight = @ - 1, !.terminal = Terminal(st) \/ @]

\* the polling of a job after a response with status st:
\* if (status === 'ready' || status === 'failed') clearInterval(pollInterval)
afterResponse(poll, st) ==
  [poll EXCEPT !.inflight = @ - 1, !.active = IF Terminal(st) THEN FALSE ELSE @,
               !.terminal = Terminal(st) \/ @]

\* a request of job j is answered with js
pollResolved(j, js) ==
  /\ polls[j].inflight > 0
  /\ document' = [isNull |-> FALSE, id |-> document.id, status |-> js.status,
                  title |-> IF js.title # "" THEN js.title ELSE document.title]
  /\ progress' = js.progress
  /\ message' = jobMessage(js.status)
  /\ status' = IF Terminal(js.status) THEN js.status ELSE status
  /\ polls' = [polls EXCEPT ![j] = afterResponse(@, js.status)]
  /\ last' = Call("pollResponse", j, <<>>, 0, {}, js.status)
  /\ UNCHANGED <<uploads, appPageTexts, readyTimers>>
  /\ UNCHANGED chat
  /\ UNCHANGED <<numPages, pageRefs, layer, spans, hl, ring, scrolled, timers>>
  /\ UNCHANGED extraction

\* a mutant of the catch block of the tick: an error ends the polling
afterFailureStop(poll) == [poll EXCEPT !.inflight = @ - 1, !.active = FALSE]

\* catch (error) { /* Continue polling on error */ }
afterFailure(poll) == [poll EXCEPT !.inflight = @ - 1]

\* a request of job j fails (network error or HTTP status that is not ok)
pollRejected(j) ==
  /\ polls[j].inflight > 0
  /\ polls' = [polls EXCEPT ![j] = afterFailure(@)]
  /\ last' = Call("pollFailure", j, <<>>, 0, {}, "undefined")
  /\ UNCHANGED <<document, progress, status, message, uploads, appPageTexts, readyTimers>>
  /\ UNCHANGED chat
  /\ UNCHANGED <<numPages, pageRefs, layer, spans, hl, ring, scrolled, timers>>
  /\ UNCHANGED extraction

\* setTimeout(() => clearInterval(pollInterval), 300000): it runs once the
\* ticks that precede it have run, or at any time when the interval is off
cleanupTimer(j) ==
  /\ polls[j].cleanup
  /\ polls[j].active => polls[j].ticks = MaxPollTicks
  /\ polls' = [polls EXCEPT ![j].cleanup = FALSE, ![j].active = FALSE]
  /\ last' = NoCall
  /\ UNCHANGED <<document, progress, status, message, uploads, appPageTexts, readyTimers>>
  /\ UNCHANGED chat
  /\ UNCHANGED <<numPages, pageRefs, layer, spans, hl, ring, scrolled, timers>>
  /\ UNCHANGED extraction

\* setDocument(null); setProgress(0); setStatus('idle'); setMessage('')
resetDocument ==
  /\ document' = NoDocument
  /\ progress' = 0
  /\ status' = "idle"
  /\ message' = ""
  /\ last' = Call("resetDocument", 0, <<>>, 0, {}, "undefined")
  /\ UNCHANGED <<uploads, polls, appPageTexts, readyTimers>>
  /\ UNCHANGED chat
  /\ UNCHANGED <<numPages, pageRefs, layer, spans, hl, ring, scrolled, timers>>
  /\ UNCHANGED extraction

NextHook ==
  \/ uploadDocument
  \/ uploadResolved
  \/ uploadRejected
  \/ \E j \in 1..Len(polls) : pollTick(j)
  \/ \E j \in 1..Len(polls), js \in JobStatuses : pollResolved(j, js)
  \/ \E j \in 1..Len(polls) : pollRejected(j)
  \/ \E j \in 1..Len(polls) : cleanupTimer(j)
  \/ resetDocument

HookSpec == Init /\ [][NextHook]_vars

\* the browser runs every timer that is due: interval ticks and cleanup timers
HookFairness ==
  /\ \A j \in 1..MaxJobs : WF_vars(j \in 1..Len(polls) /\ pollTick(j))
  /\ \A j \in 1..MaxJobs : WF_vars(j \in 1..Len(polls) /\ cleanupTimer(j))

FairHookSpec == HookSpec /\ HookFairness

----------------------------------------------------------------------------
(* Claims about upload and polling                                           *)

\* C26: once a response of job j reports 'ready' or 'failed' the interval of
\* j is cleared, and a cleared interval stays cleared and issues no further
\* getJobStatus request.
C26_TerminalStopsPolling ==
  [][\A j \in 1..Len(polls) :
       /\ (polls'[j].inflight < polls[j].inflight /\ last'.op = "pollResponse"
             /\ Terminal(last'.ret))
            => ~polls'[j].active
       /\ ~polls[j].active
            => (~polls'[j].active /\ polls'[j].ticks = polls[j].ticks)]_vars

\* a terminal response has stopped an interval that had ticks and its
\* cleanup timer still ahead
C26_Witness ==
  /\ last.op = "pollResponse"
  /\ Terminal(last.ret)
  /\ ~polls[last.page].active
  /\ polls[last.page].cleanup
  /\ polls[last.page].ticks < MaxPollTicks

\* C27: every started poll is eventually stopped, whatever the requests do.
C27_PollingTerminates ==
  \A j \in 1..MaxJobs :
    (Len(polls) >= j /\ polls[j].active) ~> (Len(polls) >= j /\ ~polls[j].active)

\* a poll none of whose requests was answered has been stopped by its cleanup
\* timer
C27_Witness ==
  \E j \in 1..Len(polls) :
    /\ ~polls[j].active
    /\ ~polls[j].cleanup
    /\ polls[j].ticks = MaxPollTicks
    /\ polls[j].inflight = 0
    /\ document.id = j
    /\ document.status = "queued"
    /\ last.op = "pollFailure"

\* C28: a failed getJobStatus request changes neither document, progress,
\* status nor message, and leaves the interval as it was: still set, with the
\* same ticks ahead.
C28_FailureKeepsPolling ==
  [][\A j \in 1..Len(polls) :
       (polls'[j].inflight < polls[j].inflight /\ last'.op = "pollFailure")
         => /\ UNCHANGED <<document, progress, status, message>>
            /\ polls'[j].active = polls[j].active
            /\ polls'[j].ticks = polls[j].ticks
            /\ polls'[j].cleanup = polls[j].cleanup]_vars

\* right after a failed request the interval is set and has a tick ahead
C28_Witness ==
  /\ last.op = "pollFailure"
  /\ polls[last.page].active
  /\ polls[last.page].ticks < MaxPollTicks
  /\ polls[last.page].inflight = 0

\* C30: when the upload fails the hook is in status 'failed' with progress 0
\* and the failure message, document is unchanged, no poll is started and the
\* error is thrown to the caller.
C30_UploadFailure ==
  [][(uploads' < uploads /\ Len(polls') = Len(polls))
       => /\ status' = "failed"
          /\ progress' = 0
          /\ message' = "Upload failed"
          /\ document' = document
          /\ polls' = polls
          /\ last'.op = "uploadDocument"
          /\ last'.threw]_vars

\* a second upload has failed while the document of the first is shown
C30_Witness ==
  /\ last.op = "uploadDocument"
  /\ last.threw
  /\ status = "failed"
  /\ ~document.isNull
  /\ Len(polls) > 0

----------------------------------------------------------------------------
(* App: the host of the pane.  readyTimers[c] is the retry chain that the    *)
(* c-th document-ready event started: the attempt its pending timer will     *)
(* make, or the last attempt it made once no timer is pending.               *)

MaxReady == 2
MaxAttempts == 5

\* texts.filter(t => t.text && t.text.trim().length > 0)
validTexts(texts) == SelectSeq(texts, LAMBDA t : t.text # <<>> /\ trim(t.text) # <<>>)

\* a mutant of the retry condition: one more attempt
retriesOnceMore(attempt) == attempt <= MaxAttempts

\* else if (attempt < 5)
retries(attempt) == attempt < MaxAttempts

\* handlePdfReady: setTimeout(() => extractTexts(), 1000)
handlePdfReady ==
  /\ Len(readyTimers) < MaxReady
  /\ readyTimers' = Append(readyTimers, [attempt |-> 1, pending |-> TRUE])
  /\ UNCHANGED <<document, progress, status, message, uploads, polls, appPageTexts>>
  /\ UNCHANGED chat

\* onDocumentLoadSuccess of the pane that App mounts: onReady={handlePdfReady}
pdfReady(d) ==
  /\ documentLoaded(d)
  /\ handlePdfReady

\* the pending timer of chain c runs extractTexts(attempt)
extractTexts(c) ==
  /\ readyTimers[c].pending
  /\ \E valid \in {validTexts(pageEntries(pageTexts))} :
       /\ IF Len(valid) > 0
          THEN /\ appPageTexts' = valid
               /\ readyTimers' = [readyTimers EXCEPT ![c].pending = FALSE]
          ELSE IF retries(readyTimers[c].attempt)
          THEN /\ readyTimers' = [readyTimers EXCEPT ![c].attempt = @ + 1]
               /\ UNCHANGED appPageTexts
          ELSE /\ appPageTexts' = <<>>
               /\ readyTimers' = [readyTimers EXCEPT ![c].pending = FALSE]
       /\ last' = Call("extractTexts", c, <<>>, 0, {}, valid)
  /\ UNCHANGED <<document, progress, status, message, uploads, polls>>
  /\ UNCHANGED chat
  /\ UNCHANGED <<numPages, pageRefs, layer, spans, hl, ring, scrolled, timers>>
  /\ UNCHANGED extraction

\* the pane in its host: documents load, text layers render, pages are
\* extracted, and the host collects the page texts
NextHost ==
  \/ \E d \in Docs : pdfReady(d)
  \/ \E p \in Pages : textLayerRender(p)
  \/ \E p \in Pages : onPageRender(p)
  \/ \E i \in 1..Len(timers) : extractTimer(i)
  \/ \E c \in 1..Len(readyTimers) : extractTexts(c)

HostSpec == Init /\ [][NextHost]_vars

\* the cache has non-blank text for a page of the current document
hasText == \E p \in 1..numPages : p \in DOMAIN pageTexts /\ trim(pageTexts[p]) # <<>>

\* C29: a chain calls getPageTexts at most 5 times; a call that finds a page
\* with non-blank text stores the texts and ends the chain; a call that finds
\* none sets the next timer, or, when it was the 5th, stores the empty list
\* and ends the chain; an ended chain does nothing more.
C29_CollectionBounded ==
  [][\A c \in 1..Len(readyTimers) :
       /\ readyTimers[c].attempt <= 5
       /\ ~readyTimers[c].pending => readyTimers'[c] = readyTimers[c]
       /\ readyTimers'[c] # readyTimers[c] =>
            /\ hasText =>
                 /\ readyTimers'[c] = [attempt |-> readyTimers[c].attempt, pending |-> FALSE]
                 /\ appPageTexts' # <<>>
            /\ (~hasText /\ readyTimers[c].attempt < 5) =>
                 /\ readyTimers'[c] = [attempt |-> readyTimers[c].attempt + 1, pending |-> TRUE]
                 /\ appPageTexts' = appPageTexts
            /\ (~hasText /\ readyTimers[c].attempt >= 5) =>
                 /\ readyTimers'[c] = [attempt |-> readyTimers[c].attempt, pending |-> FALSE]
                 /\ appPageTexts' = <<>>]_vars

\* the 5th attempt of a chain has found no text and the chain has ended
C29_Witness ==
  /\ last.op = "extractTexts"
  /\ last.ret = <<>>
  /\ readyTimers[last.page] = [attempt |-> 5, pending |-> FALSE]
  /\ appPageTexts = <<>>

----------------------------------------------------------------------------
(* useChat: the transcript.  sendQuestion is one action up to its await and  *)
(* one action for each way the request settles.  asked[k].stale records that *)
(* clearChat ran while request k was outstanding.                            *)

MaxQuestions == 2

\* what the user submits
Questions == { <<>>, <<" ">>, <<"q">> }

\* useChat(document?.id): 0 stands for a missing id
documentId == IF document.isNull THEN 0 ELSE document.id

\* a mutant of the guard of sendQuestion: the document id is not looked at
ignoredBlankOnly(question, id) == trim(question) = <<>>

\* if (!question.trim() || !documentId) return
ignored(question, id) == trim(question) = <<>> \/ id = 0

UserMessage(question) == [who |-> "You", text |-> question, isError |-> FALSE]
AnswerMessage == [who |-> "Answer", text |-> <<"a">>, isError |-> FALSE]
ErrorMessage == [who |-> "Error", text |-> <<"e">>, isError |-> TRUE]

\* sendQuestion(question) up to await apiService.askQuestion(question, documentId)
sendQuestion(question) ==
  /\ IF ignored(question, documentId)
     THEN /\ UNCHANGED chat
          /\ last' = Call("sendQuestion", 0, question, 0, {}, "ignored")
     ELSE /\ Len(asked) < MaxQuestions
          /\ messages' = Append(messages, UserMessage(question))
          /\ isLoading' = TRUE
          /\ error' = ""
          /\ asked' = Append(asked, [pending |-> TRUE, stale |-> FALSE])
          /\ last' = Call("sendQuestion", Len(asked) + 1, question, 0, {}, "asked")
  /\ UNCHANGED <<document, progress, status, message, uploads, polls, appPageTexts,
                 readyTimers>>
  /\ UNCHANGED <<numPages, pageRefs, layer, spans, hl, ring, scrolled, timers>>
  /\ UNCHANGED extraction

\* finally { setIsLoading(false) }
loadingAfterSettle(loading) == FALSE

\* request k is answered: the answer is appended
askResolved(k) ==
  /\ asked[k].pending
  /\ asked' = [asked EXCEPT ![k].pending = FALSE]
  /\ messages' = Append(messages, AnswerMessage)
  /\ isLoading' = loadingAfterSettle(isLoading)
  /\ last' = Call("answer", k, <<>>, 0, {}, "Answer")
  /\ UNCHANGED error
  /\ UNCHANGED <<document, progress, status, message, uploads, polls, appPageTexts,
                 readyTimers>>
  /\ UNCHANGED <<numPages, pageRefs, layer, spans, hl, ring, scrolled, timers>>
  /\ UNCHANGED extraction

\* request k fails: setError(error.message) and the error is appended
askRejected(k) ==
  /\ asked[k].pending
  /\ asked' = [asked EXCEPT ![k].pending = FALSE]
  /\ error' = "e"
  /\ messages' = Append(messages, ErrorMessage)
  /\ isLoading' = loadingAfterSettle(isLoading)
  /\ last' = Call("answer", k, <<>>, 0, {}, "Error")
  /\ UNCHANGED <<document, progress, status, message, uploads, polls, appPageTexts,
                 readyTimers>>
  /\ UNCHANGED <<numPages, pageRefs, layer, spans, hl, ring, scrolled, timers>>
  /\ UNCHANGED extraction

\* clearChat: the transcript is the system message again and error is null;
\* the outstanding requests are left alone
clearChat ==
  /\ messages' = <<SystemMessage>>
  /\ error' = ""
  /\ asked' = [k \in 1..Len(asked) |->
                 [asked[k] EXCEPT !.stale = asked[k].pending \/ @]]
  /\ last' = Call("clearChat", 0, <<>>, 0, {}, "undefined")
  /\ UNCHANGED isLoading
  /\ UNCHANGED <<document, progress, status, message, uploads, polls, appPageTexts,
                 readyTimers>>
  /\ UNCHANGED <<numPages, pageRefs, layer, spans, hl, ring, scrolled, timers>>
  /\ UNCHANGED extraction

\* the chat with the uploads that give it a document id
NextChat ==
  \/ uploadDocument
  \/ uploadResolved
  \/ uploadRejected
  \/ resetDocument
  \/ \E q \in Questions : sendQuestion(q)
  \/ \E k \in 1..Len(asked) : askResolved(k)
  \/ \E k \in 1..Len(asked) : askRejected(k)
  \/ clearChat

ChatSpec == Init /\ [][NextChat]_vars

\* requests that have not settled
outstanding == {k \in 1..Len(asked) : asked[k].pending}

\* C31: a sendQuestion with a blank question or without a document id changes
\* nothing of the chat; any other appends the user's message and issues one
\* request; and a request that settles appends exactly one message, an Answer
\* or an Error that has isError.
C31_SendQuestion ==
  [][/\ (last'.op = "sendQuestion"
           /\ (trim(last'.quote) = <<>> \/ document.isNull \/ document.id = 0))
          => UNCHANGED <<messages, isLoading, error, asked>>
     /\ (last'.op = "sendQuestion"
           /\ ~(trim(last'.quote) = <<>> \/ document.isNull \/ document.id = 0))
          => /\ messages' = Append(messages, [who |-> "You", text |-> last'.quote,
                                               isError |-> FALSE])
             /\ Len(asked') = Len(asked) + 1
             /\ asked'[Len(asked')].pending
     /\ outstanding' # outstanding /\ Len(asked') = Len(asked)
          => /\ Cardinality(outstanding \ outstanding') = 1
             /\ Len(messages') = Len(messages) + 1
             /\ SubSeq(messages', 1, Len(messages)) = messages
             /\ \/ (messages'[Len(messages')].who = "Answer"
                       /\ ~messages'[Len(messages')].isError)
                \/ (messages'[Len(messages')].who = "Error"
                       /\ messages'[Len(messages')].isError)]_vars

\* a question sent without a document was ignored after one had been answered
C31_Witness ==
  /\ last.op = "sendQuestion"
  /\ last.ret = "ignored"
  /\ trim(last.quote) # <<>>
  /\ Len(asked) > 0
  /\ outstanding = {}
  /\ Len(messages) > 2

\* C32: isLoading is true exactly while a request is outstanding.
C32_LoadingWhileOutstanding == isLoading <=> outstanding # {}

\* C33: the settling of a request that was outstanding when clearChat ran
\* appends nothing to the transcript.
C33_NoStaleAnswer ==
  [][\A k \in 1..Len(asked) :
       (asked[k].pending /\ asked[k].stale /\ ~asked'[k].pending)
         => messages' = messages]_vars

----------------------------------------------------------------------------
(* Claims about responses that arrive late                                   *)

\* C34: a response of the poll of job j writes nothing unless j is the
\* document the hook holds; after resetDocument, and under a later document,
\* document, progress, status and message stay as they are.
C34_PollWritesOwnDocument ==
  [][\A j \in 1..Len(polls) :
       (polls'[j].inflight < polls[j].inflight /\ (document.isNull \/ document.id # j))
         => UNCHANGED <<document, progress, status, message>>]_vars

\* C35: once a response has reported 'ready' or 'failed' for job j, a later
\* response of j changes neither document.status, progress nor message.
C35_TerminalStable ==
  [][\A j \in 1..Len(polls) :
       (polls[j].terminal /\ polls'[j].inflight < polls[j].inflight)
         => /\ document'.status = document.status
            /\ progress' = progress
            /\ message' = message]_vars

\* C36: a chain that an earlier document-ready event started does not write
\* pageTexts once a later document-ready event has occurred.
C36_StaleChainSilent ==
  [][\A c \in 1..Len(readyTimers) :
       (c < Len(readyTimers) /\ readyTimers'[c] # readyTimers[c])
         => appPageTexts' = appPageTexts]_vars

====
